---- MODULE Spec2Model ----
(***************************************************************************)
(* MathFeatures (feature_engine/creation/math_features.py): construction,  *)
(* fit, and transform, which appends one column per reduction of the       *)
(* selected input columns and optionally drops the input columns.          *)
(*                                                                         *)
(* Numbers.  A cell or a result is a record [k, n, d]:                     *)
(*   k = "num"  : the rational n/d in lowest terms, d > 0                  *)
(*   k = "nan"  : not-a-number                                             *)
(*   k = "inf"  : +infinity (n = 1) or -infinity (n = -1)                  *)
(*   k = "sqrt" : the square root of the rational n/d                      *)
(* A table (pandas DataFrame) is [columns, index, data], data[c][r] being  *)
(* the cell of the c-th column at the r-th row position.                   *)
(***************************************************************************)
EXTENDS Integers, Sequences, FiniteSets, TLC

VARIABLES pc, arg, self, raised, op, Xin, caller, block, ret, retref

vars == <<pc, arg, self, raised, op, Xin, caller, block, ret, retref>>

(***************************************************************************)
(* Bounds of the explored inputs.                                          *)
(***************************************************************************)
MaxRows == 2
MaxVal == 1
MaxN == 3
MaxValR == 2

(***************************************************************************)
(* Floating-point values as exact rationals.                               *)
(***************************************************************************)
NaN == [k |-> "nan", n |-> 0, d |-> 1]

PosInf == [k |-> "inf", n |-> 1, d |-> 1]

NegInf == [k |-> "inf", n |-> -1, d |-> 1]

Num(i) == [k |-> "num", n |-> i, d |-> 1]

Abs(i) == IF i < 0 THEN -i ELSE i

RECURSIVE Gcd(_, _)
Gcd(a, b) == IF b = 0 THEN a ELSE Gcd(b, a % b)

\* the rational a/b, b # 0, in lowest terms with a positive denominator
Frac(a, b) ==
    LET g == Gcd(Abs(a), Abs(b))
        s == IF b < 0 THEN -1 ELSE 1
    IN [k |-> "num", n |-> (s * a) \div g, d |-> (s * b) \div g]

IsNaN(a) == a.k = "nan"

\* IEEE addition, multiplication, subtraction on finite values and NaN
Add(a, b) ==
    IF IsNaN(a) \/ IsNaN(b) THEN NaN ELSE Frac(a.n * b.d + b.n * a.d, a.d * b.d)

Sub(a, b) ==
    IF IsNaN(a) \/ IsNaN(b) THEN NaN ELSE Frac(a.n * b.d - b.n * a.d, a.d * b.d)

Mul(a, b) ==
    IF IsNaN(a) \/ IsNaN(b) THEN NaN ELSE Frac(a.n * b.n, a.d * b.d)

\* a <= b on finite values and infinities
Le(a, b) ==
    IF a.k = "inf" THEN a.n = -1 \/ (b.k = "inf" /\ b.n = 1)
    ELSE IF b.k = "inf" THEN b.n = 1
    ELSE a.n * b.d <= b.n * a.d

Min2(a, b) == IF Le(a, b) THEN a ELSE b

Max2(a, b) == IF Le(a, b) THEN b ELSE a

np_sqrt(a) == IF IsNaN(a) THEN NaN ELSE [k |-> "sqrt", n |-> a.n, d |-> a.d]

RECURSIVE np_sum(_)
np_sum(row) == IF row = <<>> THEN Num(0) ELSE Add(Head(row), np_sum(Tail(row)))

RECURSIVE np_prod(_)
np_prod(row) == IF row = <<>> THEN Num(1) ELSE Mul(Head(row), np_prod(Tail(row)))

RECURSIVE np_amin(_)
np_amin(row) ==
    IF Len(row) = 1 THEN row[1] ELSE Min2(Head(row), np_amin(Tail(row)))

RECURSIVE np_amax(_)
np_amax(row) ==
    IF Len(row) = 1 THEN row[1] ELSE Max2(Head(row), np_amax(Tail(row)))

\* numpy.lib.nanfunctions._replace_nan: NaN entries overwritten by val
_replace_nan(row, val) ==
    [i \in DOMAIN row |-> IF IsNaN(row[i]) THEN val ELSE row[i]]

\* the number of entries that are not NaN
CountValid(row) == Cardinality({i \in DOMAIN row : ~IsNaN(row[i])})

\* numpy.lib.nanfunctions._divide_by_count: 0/0 is NaN
_divide_by_count(tot, cnt) ==
    IF IsNaN(tot) THEN NaN
    ELSE IF cnt = 0 THEN (IF tot.n = 0 THEN NaN
                          ELSE IF tot.n > 0 THEN PosInf ELSE NegInf)
    ELSE Frac(tot.n, tot.d * cnt)

(***************************************************************************)
(* The NaN-aware row reductions np_transform calls with axis=1.  Each      *)
(* takes one row of the selected input columns.                            *)
(***************************************************************************)
nansum(row) == np_sum(_replace_nan(row, Num(0)))

nanprod(row) == np_prod(_replace_nan(row, Num(1)))

\* divides by the row length instead of the count of valid entries
nanmean_by_length(row) ==
    _divide_by_count(np_sum(_replace_nan(row, Num(0))), Len(row))

nanmean(row) ==
    _divide_by_count(np_sum(_replace_nan(row, Num(0))), CountValid(row))

\* leaves the fill value of an all-NaN row in the result
nanmin_unmasked(row) == np_amin(_replace_nan(row, PosInf))

\* an all-NaN row is reported (a warning) and yields NaN
nanmin(row) ==
    IF CountValid(row) = 0 THEN NaN ELSE np_amin(_replace_nan(row, PosInf))

nanmax(row) ==
    IF CountValid(row) = 0 THEN NaN ELSE np_amax(_replace_nan(row, NegInf))

_remove_nan_1d(row) == SelectSeq(row, LAMBDA c : ~IsNaN(c))

RECURSIVE Insert(_, _)
Insert(c, sorted) ==
    IF sorted = <<>> THEN <<c>>
    ELSE IF Le(c, Head(sorted)) THEN <<c>> \o sorted
    ELSE <<Head(sorted)>> \o Insert(c, Tail(sorted))

RECURSIVE np_sort(_)
np_sort(row) == IF row = <<>> THEN <<>> ELSE Insert(Head(row), np_sort(Tail(row)))

\* numpy.median of a row without NaN: the middle of the sorted row, or the
\* mean of its two middle entries
np_median(row) ==
    LET s == np_sort(row)
        m == Len(s)
        h == m \div 2
    IN IF m % 2 = 1 THEN s[h + 1]
       ELSE _divide_by_count(Add(s[h], s[h + 1]), 2)

nanmedian(row) ==
    LET present == _remove_nan_1d(row)
    IN IF present = <<>> THEN NaN ELSE np_median(present)

\* divides by the count, ignoring ddof
nanvar_population(row, ddof) ==
    LET arr == _replace_nan(row, Num(0))
        cnt == CountValid(row)
        avg == _divide_by_count(np_sum(arr), cnt)
        dev == [i \in DOMAIN row |->
                   IF IsNaN(row[i]) THEN Num(0) ELSE Sub(arr[i], avg)]
        sqr == [i \in DOMAIN row |-> Mul(dev[i], dev[i])]
    IN _divide_by_count(np_sum(sqr), cnt)

\* numpy.nanvar: deviations from the mean of the valid entries, masked
\* entries zeroed, summed squares divided by (count - ddof); NaN when
\* count - ddof <= 0
nanvar(row, ddof) ==
    LET arr == _replace_nan(row, Num(0))
        cnt == CountValid(row)
        avg == _divide_by_count(np_sum(arr), cnt)
        dev == [i \in DOMAIN row |->
                   IF IsNaN(row[i]) THEN Num(0) ELSE Sub(arr[i], avg)]
        sqr == [i \in DOMAIN row |-> Mul(dev[i], dev[i])]
        dof == cnt - ddof
    IN IF dof <= 0 THEN NaN ELSE _divide_by_count(np_sum(sqr), dof)

nanstd(row, ddof) == np_sqrt(nanvar(row, ddof))

(***************************************************************************)
(* Tables (pandas DataFrame) and columns with labels (pandas Series).      *)
(***************************************************************************)
Range(seq) == {seq[i] : i \in DOMAIN seq}

EmptyFrame == [columns |-> <<>>, index |-> <<>>, data |-> <<>>]

RangeIndex(len) == [i \in 1..len |-> i - 1]

NRows(df) == Len(df.index)

\* position of the first column labelled name
ColPos(df, name) ==
    CHOOSE c \in DOMAIN df.columns :
        /\ df.columns[c] = name
        /\ \A e \in DOMAIN df.columns : df.columns[e] = name => c <= e

\* the row at position r of df[columns]
RowOf(df, columns, r) ==
    [j \in DOMAIN columns |-> df.data[ColPos(df, columns[j])][r]]

\* pd.Series(values): labelled 0..len-1
pd_Series(values) == [index |-> RangeIndex(Len(values)), values |-> values]

\* values joined to the labels idx: the value carrying the same label in
\* (index, values), NaN for a label that index lacks
Reindex(index, values, idx) ==
    [i \in DOMAIN idx |->
        IF idx[i] \in Range(index)
        THEN values[CHOOSE p \in DOMAIN index : index[p] = idx[i]]
        ELSE NaN]

\* df[name] = series: an empty frame takes the series' labels; otherwise
\* the series is joined to the frame's labels; an existing column of that
\* name is overwritten in place, a new one is appended
SetItem(df, name, series) ==
    LET idx == IF df.index = <<>> THEN series.index ELSE df.index
        col == Reindex(series.index, series.values, idx)
    IN IF name \in Range(df.columns)
       THEN [df EXCEPT !.data[ColPos(df, name)] = col]
       ELSE [columns |-> Append(df.columns, name),
             index |-> idx,
             data |-> Append(df.data, col)]

\* pd.concat([X, R], axis=1): the columns of X then those of R, over the
\* labels of X followed by the labels only R has, each side joined by label
pd_concat(X, R) ==
    LET idx == IF X.index = R.index THEN X.index
               ELSE X.index \o SelectSeq(R.index,
                                         LAMBDA l : l \notin Range(X.index))
    IN [columns |-> X.columns \o R.columns,
        index |-> idx,
        data |-> [c \in DOMAIN X.data |-> Reindex(X.index, X.data[c], idx)]
                 \o [c \in DOMAIN R.data |-> Reindex(R.index, R.data[c], idx)]]

RECURSIVE KeepPositions(_, _)
KeepPositions(seq, keep) ==
    IF seq = <<>> THEN <<>>
    ELSE (IF keep[1] THEN <<Head(seq)>> ELSE <<>>)
         \o KeepPositions(Tail(seq), Tail(keep))

\* X.drop(columns=labels): every column carrying one of the labels goes
drop(X, labels) ==
    LET keep == [c \in DOMAIN X.columns |-> X.columns[c] \notin Range(labels)]
    IN [columns |-> KeepPositions(X.columns, keep),
        index |-> X.index,
        data |-> KeepPositions(X.data, keep)]

(***************************************************************************)
(* Reduction specifications.  An entry of func is a string (str = TRUE,    *)
(* name the string) or a callable (str = FALSE, name its __name__, scope   *)
(* the scope_target of the object it is bound to, "unbound" when there is  *)
(* none).                                                                  *)
(***************************************************************************)
Str(name) == [str |-> TRUE, name |-> name, scope |-> "unbound"]

Callable(name, scope) == [str |-> FALSE, name |-> name, scope |-> scope]

Is(np_function, names) == np_function.str /\ np_function.name \in names

\* the built-in branches of np_transform, one row at a time
BuiltinResult(np_function, row) ==
    IF Is(np_function, {"sum", "np.sum"}) THEN nansum(row)
    ELSE IF Is(np_function, {"mean", "np.mean"}) THEN nanmean(row)
    ELSE IF Is(np_function, {"min", "np.min"}) THEN nanmin(row)
    ELSE IF Is(np_function, {"max", "np.max"}) THEN nanmax(row)
    ELSE IF Is(np_function, {"prod", "np.prod"}) THEN nanprod(row)
    ELSE IF Is(np_function, {"median", "np.median"}) THEN nanmedian(row)
    ELSE IF Is(np_function, {"std", "np.std"}) THEN nanstd(row, 1)
    ELSE nanvar(row, 1)

IsBuiltin(np_function) ==
    Is(np_function, {"sum", "np.sum", "mean", "np.mean", "min", "np.min",
                     "max", "np.max", "prod", "np.prod", "median",
                     "np.median", "std", "np.std", "var", "np.var"})

\* np_function.__self__.scope_target, "pandas" when that lookup raises
scope_target(np_function) ==
    IF np_function.str \/ np_function.scope = "unbound" THEN "pandas"
    ELSE np_function.scope

\* what the user's callable computes for one row: the plain sum
CallUser(np_function, row) == np_sum(row)

\* one pass of the loop of np_transform
np_transform_step(np_result_df, np_df, name, np_variables, np_function) ==
    LET rows == [r \in 1..NRows(np_df) |-> RowOf(np_df, np_variables, r)]
    IN IF IsBuiltin(np_function)
       THEN SetItem(np_result_df, name,
                pd_Series([r \in DOMAIN rows |->
                              BuiltinResult(np_function, rows[r])]))
       ELSE IF scope_target(np_function) = "numpy"
       THEN SetItem(np_result_df, name,
                pd_Series([r \in DOMAIN rows |->
                              CallUser(np_function, rows[r])]))
       ELSE IF scope_target(np_function) = "pandas"
       THEN SetItem(np_result_df, name,
                [index |-> np_df.index,
                 values |-> [r \in DOMAIN rows |->
                                CallUser(np_function, rows[r])]])
       ELSE np_result_df

RECURSIVE np_transform_from(_, _, _, _, _, _)
np_transform_from(np_result_df, idx, np_df, names, np_variables, np_functions) ==
    IF idx > Len(np_functions) THEN np_result_df
    ELSE np_transform_from(
             np_transform_step(np_result_df, np_df, names[idx],
                               np_variables, np_functions[idx]),
             idx + 1, np_df, names, np_variables, np_functions)

np_transform(np_df, new_variable_names, np_variables, np_functions) ==
    np_transform_from(EmptyFrame, 1, np_df, new_variable_names,
                      np_variables, np_functions)

RECURSIVE join(_, _)
join(sep, parts) ==
    IF Len(parts) = 1 THEN parts[1]
    ELSE parts[1] \o sep \o join(sep, Tail(parts))

(***************************************************************************)
(* MathFeatures.__init__.  The arguments as the caller passes them:        *)
(*   variables: isList, okTypes (every entry an int or a str), items       *)
(*   func: form "str" | "callable" | "list" | "dict", items (the single    *)
(*         string or callable, or the entries of the list)                 *)
(*   new_variables_names: none (None), isList, allStr, items               *)
(***************************************************************************)
\* lines 193-200: a string is appended to a fresh list, anything else is
\* taken as it is
function_input(func) ==
    IF func.form = "str" THEN [form |-> "list", items |-> func.items]
    ELSE func

IsList(func) == func.form = "list"

Unique(items) == Cardinality(Range(items)) = Len(items)

\* BaseCreation.__init__: the enumerated policy and the boolean flag
BaseInitError(missing_values, drop_original) ==
    IF missing_values \notin {"raise", "ignore"} THEN "ValueError" ELSE "none"

\* the exception __init__ raises for the arguments a, "none" when it returns
InitError(a) ==
    LET func == function_input(a.func)
        variables == a.variables
        names == a.new_variables_names
    IN IF \/ ~variables.isList
          \/ ~variables.okTypes
          \/ Len(variables.items) < 2
          \/ ~Unique(variables.items)
       THEN "ValueError"
       ELSE IF func.form = "dict" THEN "NotImplementedError"
       ELSE IF /\ ~names.none
               /\ (~names.isList \/ ~names.allStr \/ ~Unique(names.items))
       THEN "ValueError"
       ELSE IF /\ ~names.none
               /\ IsList(func)
               /\ Len(names.items) # Len(func.items)
       THEN "ValueError"
       ELSE BaseInitError(a.missing_values, a.drop_original)

NoSelf ==
    [variables |-> <<>>, func |-> [form |-> "list", items |-> <<>>],
     new_variables_names |-> [none |-> TRUE, items |-> <<>>],
     missing_values |-> "raise", drop_original |-> FALSE,
     variables_ |-> <<>>, feature_names_in_ |-> <<>>, n_features_in_ |-> 0]

\* lines 237-241: the instance after a successful __init__
InitSelf(a) ==
    [NoSelf EXCEPT
        !.variables = a.variables.items,
        !.func = function_input(a.func),
        !.new_variables_names = [none |-> a.new_variables_names.none,
                                 items |-> a.new_variables_names.items],
        !.missing_values = a.missing_values,
        !.drop_original = a.drop_original]

(***************************************************************************)
(* BaseCreation.fit and BaseCreation._check_transform_input_and_state.     *)
(***************************************************************************)
HasNaN(X, columns) ==
    \E j \in DOMAIN columns : \E r \in 1..NRows(X) :
        IsNaN(X.data[ColPos(X, columns[j])][r])

FitError(me, X) ==
    IF ~(Range(me.variables) \subseteq Range(X.columns)) THEN "KeyError"
    ELSE IF me.missing_values = "raise" /\ HasNaN(X, me.variables)
    THEN "ValueError"
    ELSE "none"

FitSelf(me, X) ==
    [me EXCEPT !.variables_ = me.variables,
               !.feature_names_in_ = X.columns,
               !.n_features_in_ = Len(X.columns)]

CheckTransformError(fitted, me, X) ==
    IF ~fitted THEN "NotFittedError"
    ELSE IF Len(X.columns) # me.n_features_in_ THEN "ValueError"
    ELSE IF me.missing_values = "raise" /\ HasNaN(X, me.variables_)
    THEN "ValueError"
    ELSE "none"

(***************************************************************************)
(* MathFeatures._get_new_features_name.  feature_names is bound on the     *)
(* explicit-names path and on the derived path when func is a list; on     *)
(* the remaining path the return statement finds it unbound.               *)
(***************************************************************************)
NamesError(me) ==
    IF me.new_variables_names.none /\ ~IsList(me.func)
    THEN "UnboundLocalError" ELSE "none"

_get_new_features_name(me) ==
    IF ~me.new_variables_names.none THEN me.new_variables_names.items
    ELSE LET varlist == me.variables_
             functions == [i \in DOMAIN me.func.items |-> me.func.items[i].name]
         IN [i \in DOMAIN functions |->
                functions[i] \o "_" \o join("_", varlist)]

(***************************************************************************)
(* MathFeatures.transform.  X is bound in turn to the caller's table, to   *)
(* the table the input check returns, and to the table pd.concat returns;  *)
(* the drop acts in place on the table X is bound to at that point.        *)
(***************************************************************************)
\* the columns are added to the table X is bound to
AssembledInPlace(Xref) == Xref

\* lines 352-355: X is rebound to the new table pd.concat allocates
AssembledRef(Xref) == "assembled"

\* the exception transform raises, "none" when it returns
TransformError(fitted, me, X) ==
    IF CheckTransformError(fitted, me, X) # "none"
    THEN CheckTransformError(fitted, me, X)
    ELSE IF NamesError(me) # "none" THEN NamesError(me)
    ELSE IF ~IsList(me.func) THEN "TypeError"
    ELSE IF Len(_get_new_features_name(me)) < Len(me.func.items)
    THEN "IndexError"
    ELSE "none"

\* the tables after a transform that returns: heap maps each table object
\* to its content, ref names the returned one, block is np_result_df
TransformRun(me, X, copied) ==
    LET checked == IF copied THEN "checked" ELSE "caller"
        heap0 == [caller |-> X,
                  checked |-> IF copied THEN X ELSE EmptyFrame,
                  assembled |-> EmptyFrame]
        new_variable_names == _get_new_features_name(me)
        np_result_df == np_transform(heap0[checked], new_variable_names,
                                     me.variables, me.func.items)
        ref == AssembledRef(checked)
        heap1 == [heap0 EXCEPT ![ref] = pd_concat(heap0[checked], np_result_df)]
        heap2 == IF me.drop_original
                 THEN [heap1 EXCEPT ![ref] = drop(heap1[ref], me.variables)]
                 ELSE heap1
    IN [heap |-> heap2, ref |-> ref, block |-> np_result_df]

(***************************************************************************)
(* Inputs.                                                                 *)
(***************************************************************************)
VList(items) == [isList |-> TRUE, okTypes |-> TRUE, items |-> items]

VariablesArgs ==
    {VList(<<"x1", "x2">>), VList(<<"x2", "x1">>), VList(<<"x1">>),
     VList(<<"x1", "x1">>),
     [isList |-> FALSE, okTypes |-> TRUE, items |-> <<"x1", "x2">>],
     [isList |-> TRUE, okTypes |-> FALSE, items |-> <<"x1", "x2">>]}

FList(items) == [form |-> "list", items |-> items]

FuncArgs ==
    {[form |-> "str", items |-> <<Str("sum")>>],
     [form |-> "callable", items |-> <<Callable("f", "unbound")>>],
     [form |-> "dict", items |-> <<>>],
     FList(<<>>),
     FList(<<Str("sum")>>),
     FList(<<Str("sum"), Str("mean")>>),
     FList(<<Str("sum"), Str("sum")>>),
     FList(<<Callable("g", "numpy")>>),
     FList(<<Callable("h", "other")>>),
     FList(<<Callable("f", "unbound"), Str("sum")>>),
     FList(<<Str("sum"), Callable("f", "pandas")>>),
     FList(<<Str("sum"), Callable("h", "other")>>)}

NList(items) ==
    [none |-> FALSE, isList |-> TRUE, allStr |-> TRUE, items |-> items]

NamesArgs ==
    {[none |-> TRUE, isList |-> FALSE, allStr |-> FALSE, items |-> <<>>],
     NList(<<"n1">>), NList(<<"x1">>), NList(<<"n1", "n2">>),
     NList(<<"n1", "n1">>),
     [none |-> FALSE, isList |-> FALSE, allStr |-> TRUE, items |-> <<"n1">>],
     [none |-> FALSE, isList |-> TRUE, allStr |-> FALSE, items |-> <<"n1">>]}

Args ==
    [variables : VariablesArgs, func : FuncArgs,
     new_variables_names : NamesArgs,
     missing_values : {"raise", "ignore", "skip"},
     drop_original : BOOLEAN]

NoArgs ==
    [variables |-> VList(<<>>), func |-> FList(<<>>),
     new_variables_names |-> NList(<<>>),
     missing_values |-> "raise", drop_original |-> FALSE]

Cells == {NaN} \cup {Num(v) : v \in 1..MaxVal}

\* row labels: 0..len-1, 1..len, len-1..0
Indexes(len) ==
    {RangeIndex(len), [i \in 1..len |-> i], [i \in 1..len |-> len - i]}

\* tables with the input columns x1, x2 and one more column y
Tables ==
    UNION {{[columns |-> <<"x1", "x2", "y">>,
             index |-> ix,
             data |-> <<c1, c2, [i \in 1..len |-> Num(0)]>>] :
               c1 \in [1..len -> Cells], c2 \in [1..len -> Cells],
               ix \in Indexes(len)} : len \in 1..MaxRows}

(***************************************************************************)
(* The life of one instance: construction, fit, transform.                 *)
(***************************************************************************)
Init ==
    /\ pc = "start"
    /\ arg = NoArgs
    /\ self = NoSelf
    /\ raised = "none"
    /\ op = "none"
    /\ Xin = EmptyFrame
    /\ caller = EmptyFrame
    /\ block = EmptyFrame
    /\ ret = EmptyFrame
    /\ retref = "none"

NoCall ==
    /\ Xin' = EmptyFrame
    /\ caller' = EmptyFrame
    /\ block' = EmptyFrame
    /\ ret' = EmptyFrame
    /\ retref' = "none"

Construct ==
    /\ pc = "start"
    /\ \E a \in Args :
        /\ arg' = a
        /\ raised' = InitError(a)
        /\ IF InitError(a) = "none"
           THEN pc' = "constructed" /\ self' = InitSelf(a)
           ELSE pc' = "rejected" /\ self' = NoSelf
    /\ op' = "init"
    /\ NoCall

Fit ==
    /\ pc \in {"constructed", "fitted"}
    /\ \E X \in Tables :
        \E err \in {FitError(self, X)} :
            /\ raised' = err
            /\ IF err = "none"
               THEN pc' = "fitted" /\ self' = FitSelf(self, X)
               ELSE pc' = pc /\ self' = self
    /\ op' = "fit"
    /\ NoCall
    /\ UNCHANGED arg

TransformOn(X) ==
    /\ pc \in {"constructed", "fitted"}
    /\ Xin' = X
    /\ op' = "transform"
    /\ \E err \in {TransformError(pc = "fitted", self, X)} :
        /\ raised' = err
        /\ IF err = "none"
           THEN \E copied \in BOOLEAN :
                    \E run \in {TransformRun(self, X, copied)} :
                       /\ caller' = run.heap.caller
                       /\ block' = run.block
                       /\ ret' = run.heap[run.ref]
                       /\ retref' = run.ref
           ELSE /\ caller' = X
                /\ block' = EmptyFrame
                /\ ret' = EmptyFrame
                /\ retref' = "none"
    /\ UNCHANGED <<pc, arg, self>>

Transform == \E X \in Tables : TransformOn(X)

Next == Construct \/ Fit \/ Transform

Spec == Init /\ [][Next]_vars

(***************************************************************************)
(* The built-in reductions on wider rows: an instance constructed with     *)
(* the eight built-in names (or their np. aliases) over the first N        *)
(* columns and fitted, and a one-row table the caller holds; Reduce        *)
(* passes that table to transform.                                         *)
(***************************************************************************)
AllColumns == <<"x1", "x2", "x3", "x4", "x5">>

BuiltinNames ==
    <<"sum", "mean", "min", "max", "prod", "median", "std", "var">>

BuiltinFuncs(alias) ==
    [i \in DOMAIN BuiltinNames |->
        Str(IF alias THEN "np." \o BuiltinNames[i] ELSE BuiltinNames[i])]

ReduceArgs(N, alias, missing_values) ==
    [variables |-> VList(SubSeq(AllColumns, 1, N)),
     func |-> FList(BuiltinFuncs(alias)),
     new_variables_names |->
         [none |-> TRUE, isList |-> FALSE, allStr |-> FALSE, items |-> <<>>],
     missing_values |-> missing_values,
     drop_original |-> FALSE]

ReduceCells == {NaN} \cup {Num(v) : v \in -1..MaxValR}

ReduceTables(N) ==
    {[columns |-> SubSeq(AllColumns, 1, N),
      index |-> ix,
      data |-> [c \in 1..N |-> <<row[c]>>]] :
        row \in [1..N -> ReduceCells], ix \in Indexes(1)}

InitReduce ==
    \E N \in 2..MaxN, alias \in BOOLEAN, mv \in {"raise", "ignore"} :
        \E X \in ReduceTables(N) :
            /\ InitError(ReduceArgs(N, alias, mv)) = "none"
            /\ pc = "fitted"
            /\ arg = ReduceArgs(N, alias, mv)
            /\ self = FitSelf(InitSelf(ReduceArgs(N, alias, mv)), X)
            /\ raised = "none"
            /\ op = "none"
            /\ Xin = X
            /\ caller = X
            /\ block = EmptyFrame
            /\ ret = EmptyFrame
            /\ retref = "none"

Reduce == TransformOn(Xin)

NextReduce == Reduce

SpecReduce == InitReduce /\ [][NextReduce]_vars

(***************************************************************************)
(* Properties.  Called: the last operation was a transform that returned.  *)
(***************************************************************************)
Called == op = "transform" /\ raised = "none"

\* the input row at position r of the table passed to transform
Row(r) == RowOf(Xin, self.variables, r)

\* the integer values of the cells of a row that are not missing
Present(row) ==
    LET p == SelectSeq(row, LAMBDA c : c.k = "num")
    IN [i \in DOMAIN p |-> p[i].n]

\* the value np_transform computed for the j-th specification at row r
Out(j, r) == block.data[j][r]

Specs == self.func.items

RECURSIVE IntSum(_)
IntSum(p) == IF p = <<>> THEN 0 ELSE p[1] + IntSum(Tail(p))

RECURSIVE IntProd(_)
IntProd(p) == IF p = <<>> THEN 1 ELSE p[1] * IntProd(Tail(p))

Least(p) == CHOOSE v \in Range(p) : \A w \in Range(p) : v <= w

Greatest(p) == CHOOSE v \in Range(p) : \A w \in Range(p) : w <= v

\* the k-th smallest entry of p, by counting
Kth(p, k) ==
    CHOOSE v \in Range(p) :
        /\ Cardinality({i \in DOMAIN p : p[i] < v}) < k
        /\ k <= Cardinality({i \in DOMAIN p : p[i] <= v})

Median(p) ==
    IF Len(p) % 2 = 1 THEN Num(Kth(p, (Len(p) + 1) \div 2))
    ELSE Frac(Kth(p, Len(p) \div 2) + Kth(p, Len(p) \div 2 + 1), 2)

\* sum of (x - mean)^2 over the m entries of p, divided by m - 1 (m >= 2):
\* with S the sum, (x - S/m)^2 = (m*x - S)^2 / m^2
SampleVariance(p) ==
    LET m == Len(p)
        S == IntSum(p)
    IN Frac(IntSum([i \in DOMAIN p |-> (m * p[i] - S) * (m * p[i] - S)]),
            m * m * (m - 1))

\* C6: for sum, mean, min, max, prod, median and their np. aliases, at
\* every row with at least one present input value (some missing or none
\* missing) the computed value is that reduction over exactly the present
\* values of the row.
C6_ReducesPresentValues ==
    Called =>
        \A r \in 1..NRows(Xin) : \A j \in DOMAIN Specs :
            LET f == Specs[j]
                p == Present(Row(r))
            IN Len(p) >= 1 =>
                /\ Is(f, {"sum", "np.sum"}) => Out(j, r) = Num(IntSum(p))
                /\ Is(f, {"mean", "np.mean"})
                       => Out(j, r) = Frac(IntSum(p), Len(p))
                /\ Is(f, {"min", "np.min"}) => Out(j, r) = Num(Least(p))
                /\ Is(f, {"max", "np.max"}) => Out(j, r) = Num(Greatest(p))
                /\ Is(f, {"prod", "np.prod"}) => Out(j, r) = Num(IntProd(p))
                /\ Is(f, {"median", "np.median"}) => Out(j, r) = Median(p)

\* C6 witness: a transform returned for three input columns with a row in
\* which exactly one value is missing
C6_Witness ==
    /\ Called
    /\ Len(self.variables) = 3
    /\ \E r \in 1..NRows(Xin) :
        /\ Len(Present(Row(r))) = 2
        /\ Present(Row(r))[1] # Present(Row(r))[2]

\* C7 as claimed: at a row whose input values are all missing every
\* built-in reduction, sum and prod included, yields not-a-number.
C7_AllMissingIsNaN ==
    Called =>
        \A r \in 1..NRows(Xin) : \A j \in DOMAIN Specs :
            (IsBuiltin(Specs[j]) /\ Present(Row(r)) = <<>>)
                => IsNaN(Out(j, r))

\* C7 amended: at a row whose input values are all missing, mean, min,
\* max, median, std and var yield not-a-number, sum yields 0 and prod
\* yields 1.
C7_AllMissingAmended ==
    Called =>
        \A r \in 1..NRows(Xin) : \A j \in DOMAIN Specs :
            (IsBuiltin(Specs[j]) /\ Present(Row(r)) = <<>>) =>
                IF Is(Specs[j], {"sum", "np.sum"}) THEN Out(j, r) = Num(0)
                ELSE IF Is(Specs[j], {"prod", "np.prod"})
                THEN Out(j, r) = Num(1)
                ELSE IsNaN(Out(j, r))

\* C7 witness: a transform returned for a table with an all-missing row
C7_Witness ==
    /\ Called
    /\ \E r \in 1..NRows(Xin) : Present(Row(r)) = <<>>
    /\ \E j \in DOMAIN Specs : Is(Specs[j], {"sum", "np.sum"})

\* C8: std and var (and np.std, np.var) with m present values in a row:
\* for m >= 2 var is the sum of squared deviations from the mean of the
\* present values divided by m - 1 and std is its square root; for m < 2
\* both are not-a-number.
C8_SampleStdVar ==
    Called =>
        \A r \in 1..NRows(Xin) : \A j \in DOMAIN Specs :
            LET f == Specs[j]
                p == Present(Row(r))
            IN /\ Is(f, {"var", "np.var"}) =>
                    IF Len(p) >= 2 THEN Out(j, r) = SampleVariance(p)
                    ELSE IsNaN(Out(j, r))
               /\ Is(f, {"std", "np.std"}) =>
                    IF Len(p) >= 2
                    THEN Out(j, r) = [k |-> "sqrt", n |-> SampleVariance(p).n,
                                      d |-> SampleVariance(p).d]
                    ELSE IsNaN(Out(j, r))

\* C8 witness: a transform returned with var requested over three input
\* columns and a row with exactly two present, different values
C8_Witness ==
    /\ Called
    /\ Len(self.variables) = 3
    /\ \E j \in DOMAIN Specs : Is(Specs[j], {"var", "np.var"})
    /\ \E r \in 1..NRows(Xin) :
        /\ Len(Present(Row(r))) = 2
        /\ Present(Row(r))[1] # Present(Row(r))[2]

\* position of the last column labelled name
LastColPos(df, name) ==
    CHOOSE c \in DOMAIN df.columns :
        /\ df.columns[c] = name
        /\ \A e \in DOMAIN df.columns : df.columns[e] = name => e <= c

\* the reduction a specification stands for, on one row
Reduction(f, row) ==
    IF IsBuiltin(f) THEN BuiltinResult(f, row) ELSE CallUser(f, row)

\* C1: a transform that returns gives a table with the rows of the input
\* table, in the same order, and the value of each new column at a row is
\* the reduction of that row's input values.
C1_RowsAligned ==
    Called =>
        /\ NRows(ret) = NRows(Xin)
        /\ ret.index = Xin.index
        /\ \A j \in DOMAIN Specs : \A r \in 1..NRows(Xin) :
            LET names == _get_new_features_name(self)
            IN (/\ scope_target(Specs[j]) \in {"numpy", "pandas"}
                /\ names[j] \in Range(ret.columns)
                /\ \A i \in DOMAIN Specs : i > j => names[i] # names[j]
                /\ r <= NRows(ret))
               => ret.data[LastColPos(ret, names[j])][r]
                      = Reduction(Specs[j], Row(r))

\* C2: a transform that returns gives a table with one new column per
\* reduction specification.  Stated for output names that are not input
\* column names, so that the drop of the input columns removes no new
\* column.
C2_OneColumnPerSpec ==
    (/\ Called
     /\ Range(_get_new_features_name(self)) \cap Range(self.variables) = {})
    => Len(ret.columns)
           = Len(Xin.columns)
             - (IF self.drop_original THEN Len(self.variables) ELSE 0)
             + Len(Specs)

\* C3: after a successful construction the stored func is a sequence: a
\* single string or callable is stored as a one-element sequence, a list is
\* stored unchanged; a fitted instance built from a single callable
\* transforms a valid table into a table with exactly one new column.
C3_FuncStoredAsSequence ==
    /\ pc \in {"constructed", "fitted"} =>
        /\ IsList(self.func)
        /\ Len(self.func.items) = Len(arg.func.items)
        /\ arg.func.form = "list" => self.func = arg.func
    /\ (/\ op = "transform"
        /\ arg.func.form = "callable"
        /\ CheckTransformError(pc = "fitted", self, Xin) = "none")
       => (raised = "none" /\ Len(block.columns) = 1)

\* C4: a construction given new_variables_names succeeds only if it is a
\* list of unique strings with one name per reduction specification,
\* whatever the form of func.
C4_NamesCountChecked ==
    (op = "init" /\ raised = "none" /\ ~arg.new_variables_names.none) =>
        /\ arg.new_variables_names.isList
        /\ arg.new_variables_names.allStr
        /\ Unique(arg.new_variables_names.items)
        /\ Len(arg.new_variables_names.items) = Len(arg.func.items)

\* the labels of columns that are not input columns
NotInput(columns) ==
    SelectSeq(columns, LAMBDA c : c \notin Range(self.variables))

\* C5: with drop_original the returned table lacks the input columns and
\* nothing else, every other original column and every new column being
\* present; without it the original columns stay in place and the new
\* columns follow them.
C5_DropsOnlyInputColumns ==
    Called =>
        IF self.drop_original
        THEN ret.columns = NotInput(Xin.columns) \o block.columns
        ELSE ret.columns = Xin.columns \o block.columns

\* C9: for every constructed and fitted instance the name deriver returns
\* one name per reduction specification: the explicit names, or
\* "<identity>_<input column names joined by _>".
C9_OneNamePerSpec ==
    pc = "fitted" =>
        /\ NamesError(self) = "none"
        /\ raised # "UnboundLocalError"
        /\ Len(_get_new_features_name(self)) = Len(Specs)
        /\ ~self.new_variables_names.none
               => _get_new_features_name(self) = arg.new_variables_names.items

\* C10: transform leaves the caller's table as it was passed, whether it
\* returns or raises and whatever drop_original is, and a returned table
\* is another object than the caller's.
C10_CallerTableUntouched ==
    op = "transform" =>
        /\ caller = Xin
        /\ raised = "none" => retref # "caller"

\* C10 witness: a transform with drop_original returned a table whose
\* columns differ from those of the table passed
C10_Witness ==
    /\ Called
    /\ self.drop_original
    /\ ret.columns # Xin.columns
    /\ caller = Xin

====
